---- MODULE Spec2Model ----
(***************************************************************************)
(* A model of src/game.py: the tile world (generate_world and its passes), *)
(* the player body (Player.update, is_colliding, resolve_collisions), the  *)
(* mining controller (Player.mine_block), the input handler                *)
(* (Game.handle_input), the shop actions and the frame loop (Game.run).    *)
(*                                                                         *)
(* Numbers.  The program computes with floats; the model computes with     *)
(* exact integers in fixed sub-units:                                      *)
(*   - one frame lasts delta_time = 1/DT_DIV second;                       *)
(*   - a velocity v px/s is stored as v * VEL_DEN;                         *)
(*   - a position p px is stored as p * U, U = DT_DIV * VEL_DEN, so that   *)
(*     "x + vel_x * delta_time" is x + vel_x on the stored numbers;        *)
(*   - mining progress q is stored as q * PROG_DEN.                        *)
(* The 1.2-fold upgrade multipliers are stored as their purchase counts    *)
(* (multiplier = (6/5)^count).  Rendering state (textures, camera, time of *)
(* day, map zoom, shop_location) is left out: no handler reads it back     *)
(* except to place the mouse, and the mouse cell is an input here.         *)
(***************************************************************************)
EXTENDS Integers, Sequences, FiniteSets, TLC

\* ------------------------------------------------------------ constants

\* World size.  The program uses 200 x 200 playable cells; the model keeps the
\* layout rules and shrinks the extent.
PLAY_ROWS == 12
COLS == 6
BEDROCK_THICKNESS == 3
ROWS == PLAY_ROWS + BEDROCK_THICKNESS
TILE_SIZE == 32
GRAVITY == 1500
JUMP_POWER == -500
BASE_MAX_SPEED == 600
BASE_ACCELERATION == 2000
FRICTION == 1500
MINING_RANGE == 100
DEFAULT_INVENTORY_SLOTS == 5

\* Most purchases of one multiplier upgrade the model follows.
MaxUpgrades == 1
\* Most regenerations (R key) the model follows in one run.
MaxRegens == 1

RECURSIVE Pow(_, _)
Pow(b, n) == IF n = 0 THEN 1 ELSE b * Pow(b, n - 1)

\* delta_time = 1 / DT_DIV second in every frame.
DT_DIV == 10
VEL_DEN == Pow(5, MaxUpgrades)
U == DT_DIV * VEL_DEN
PROG_DEN == 100 * Pow(5, MaxUpgrades)
TILE == TILE_SIZE * U

None == "none"
Kinds ==
  {"dirt", "stone", "wood", "leaves", "diamond_ore", "gold_ore", "iron_ore",
   "coal", "amethyst", "ruby", "magnesium", "zinc", "copper", "tungsten",
   "water", "bedrock"}

\* BLOCK_TYPES[kind]['hardness']
Hardness(kind) ==
  CASE kind \in {"dirt", "wood", "coal"} -> 2
    [] kind \in {"stone", "iron_ore", "magnesium", "zinc", "copper"} -> 3
    [] kind = "leaves" -> 1
    [] kind \in {"diamond_ore", "tungsten"} -> 5
    [] kind \in {"gold_ore", "amethyst", "ruby"} -> 4
    [] kind = "water" -> 0
    [] kind = "bedrock" -> 9999
    [] OTHER -> 1

\* BLOCK_XP.get(kind, hardness * 10)
BlockXp(kind) ==
  CASE kind \in {"dirt", "leaves"} -> 1
    [] kind = "stone" -> 2
    [] kind = "wood" -> 3
    [] kind = "diamond_ore" -> 50
    [] kind = "gold_ore" -> 25
    [] kind = "iron_ore" -> 15
    [] kind = "coal" -> 5
    [] kind \in {"amethyst", "ruby"} -> 20
    [] kind \in {"magnesium", "zinc", "copper"} -> 10
    [] kind = "tungsten" -> 30
    [] kind \in {"water", "bedrock"} -> 0
    [] OTHER -> Hardness(kind) * 10

Max(a, b) == IF a >= b THEN a ELSE b
Min(a, b) == IF a <= b THEN a ELSE b

\* ------------------------------------------------------------ the grid

\* A write that replaces the whole row by the value.
SetCellRow(w, row, col, v) == [w EXCEPT ![row] = [c \in 0 .. COLS - 1 |-> v]]

SetCell(w, row, col, v) == [w EXCEPT ![row][col] = v]

InGrid(row, col) == 0 <= row /\ row < ROWS /\ 0 <= col /\ col < COLS

\* stone_start = PLAY_ROWS * 2 // 3
stone_start == (PLAY_ROWS * 2) \div 3
mid_x == COLS \div 2

\* ------------------------------------------------------ world generation
\* The random draws of one generate_world call are passed in as a record
\*   thickness : column -> random.randint(4, 8)
\*   trees     : column -> NoTree, or the draws of generate_tree for a column
\*               whose random.random() < 0.2 succeeded:
\*               [height |-> randint(4, 7), leaves |-> the <<dy, dx>> offsets
\*               (dy in -1..1 from top_y, dx in -2..2 from x) whose
\*               random.random() < 0.7 succeeds]
\*   veins     : the veins in order, each [ore, start_col, start_row, dirs],
\*               dirs the direction drawn after each of the `length` visits.

NoTree == [height |-> 0, leaves |-> {}]

\* Column loops that leave the row above the stone empty.
FillColumnsGap(thickness) ==
  [row \in 0 .. ROWS - 1 |->
     [col \in 0 .. COLS - 1 |->
        IF stone_start - thickness[col] <= row /\ row < stone_start - 1 THEN "dirt"
        ELSE IF stone_start <= row /\ row < PLAY_ROWS THEN "stone"
        ELSE None]]

\* The column loops of generate_world: dirt from the ground level down to
\* stone_start, stone from there to PLAY_ROWS.
FillColumns(thickness) ==
  [row \in 0 .. ROWS - 1 |->
     [col \in 0 .. COLS - 1 |->
        IF stone_start - thickness[col] <= row /\ row < stone_start THEN "dirt"
        ELSE IF stone_start <= row /\ row < PLAY_ROWS THEN "stone"
        ELSE None]]

\* A bedrock fill that stops one row short of the bottom.
FillBedrockShort(w) ==
  [row \in 0 .. ROWS - 1 |->
     [col \in 0 .. COLS - 1 |->
        IF PLAY_ROWS <= row /\ row < ROWS - 1 THEN "bedrock" ELSE w[row][col]]]

\* Rows PLAY_ROWS .. ROWS-1 become bedrock in every column.
FillBedrock(w) ==
  [row \in 0 .. ROWS - 1 |->
     [col \in 0 .. COLS - 1 |->
        IF PLAY_ROWS <= row /\ row < ROWS THEN "bedrock" ELSE w[row][col]]]

\* A tree that writes its trunk and its leaves whatever the cells hold.
generate_tree_overwrite(x, y, world, t) ==
  LET top_y == Max(0, y - t.height)
  IN [row \in 0 .. ROWS - 1 |->
        [col \in 0 .. COLS - 1 |->
           IF /\ top_y - 1 <= row /\ row <= top_y + 1
              /\ x - 2 <= col /\ col <= x + 2
              /\ 0 <= row /\ row < PLAY_ROWS /\ 0 <= col /\ col < COLS
              /\ <<row - top_y, col - x>> \in t.leaves
           THEN "leaves"
           ELSE IF col = x /\ top_y <= row /\ row < y THEN "wood"
           ELSE world[row][col]]]

\* generate_tree: the trunk above the ground level, then the leaves around
\* its top, each written into an empty cell only.
generate_tree(x, y, world, t) ==
  LET top_y == Max(0, y - t.height)
      trunk == [row \in 0 .. ROWS - 1 |->
                  [col \in 0 .. COLS - 1 |->
                     IF col = x /\ top_y <= row /\ row < y /\ world[row][col] = None
                     THEN "wood" ELSE world[row][col]]]
  IN [row \in 0 .. ROWS - 1 |->
        [col \in 0 .. COLS - 1 |->
           IF /\ top_y - 1 <= row /\ row <= top_y + 1
              /\ x - 2 <= col /\ col <= x + 2
              /\ 0 <= row /\ row < PLAY_ROWS /\ 0 <= col /\ col < COLS
              /\ trunk[row][col] = None
              /\ <<row - top_y, col - x>> \in t.leaves
           THEN "leaves" ELSE trunk[row][col]]]

\* for col in range(2, COLS - 2): if random.random() < 0.2: generate_tree(...)
RECURSIVE PlaceTrees(_, _, _, _)
PlaceTrees(world, ground_levels, trees, col) ==
  IF col >= COLS - 2 THEN world
  ELSE PlaceTrees(IF trees[col] = NoTree THEN world
                  ELSE generate_tree(col, ground_levels[col], world, trees[col]),
                  ground_levels, trees, col + 1)

\* random.choice's list of the eight neighbours, as <<dx, dy>>.
DIRS == << <<1, 0>>, <<-1, 0>>, <<0, 1>>, <<0, -1>>,
           <<1, 1>>, <<-1, -1>>, <<1, -1>>, <<-1, 1>> >>

\* A walk that turns every occupied cell it visits into ore.
RECURSIVE VeinWalkAnyBlock(_, _, _, _, _, _)
VeinWalkAnyBlock(world, ore_type, start_col, start_row, dirs, i) ==
  IF i > Len(dirs) THEN world
  ELSE LET d == DIRS[dirs[i]]
       IN IF /\ 0 <= start_row /\ start_row < PLAY_ROWS
             /\ 0 <= start_col /\ start_col < COLS
             /\ world[start_row][start_col] # None
          THEN VeinWalkAnyBlock(SetCell(world, start_row, start_col, ore_type),
                                ore_type, start_col + d[1], start_row + d[2],
                                dirs, i + 1)
          ELSE VeinWalkAnyBlock(world, ore_type,
                                start_col + d[1], start_row + d[2], dirs, i + 1)

\* A walk that visits its start and then one more position for each of its
\* `length` moves.
RECURSIVE VeinWalkFromStart(_, _, _, _, _, _)
VeinWalkFromStart(world, ore_type, start_col, start_row, dirs, i) ==
  LET w == IF /\ 0 <= start_row /\ start_row < PLAY_ROWS
              /\ 0 <= start_col /\ start_col < COLS
              /\ world[start_row][start_col] = "stone"
           THEN SetCell(world, start_row, start_col, ore_type) ELSE world
  IN IF i > Len(dirs) THEN w
     ELSE VeinWalkFromStart(w, ore_type, start_col + DIRS[dirs[i]][1],
                            start_row + DIRS[dirs[i]][2], dirs, i + 1)

\* A walk that ends at its first position outside the play rows and columns.
RECURSIVE VeinWalkStopOutside(_, _, _, _, _, _)
VeinWalkStopOutside(world, ore_type, start_col, start_row, dirs, i) ==
  IF i > Len(dirs) THEN world
  ELSE IF ~(/\ 0 <= start_row /\ start_row < PLAY_ROWS
            /\ 0 <= start_col /\ start_col < COLS) THEN world
  ELSE LET d == DIRS[dirs[i]]
           w == IF world[start_row][start_col] = "stone"
                THEN SetCell(world, start_row, start_col, ore_type) ELSE world
       IN VeinWalkStopOutside(w, ore_type, start_col + d[1], start_row + d[2],
                              dirs, i + 1)

\* One vein: `length` visits; a visited in-range stone cell becomes ore, then
\* the walker moves by the drawn direction.
RECURSIVE VeinWalk(_, _, _, _, _, _)
VeinWalk(world, ore_type, start_col, start_row, dirs, i) ==
  IF i > Len(dirs) THEN world
  ELSE LET d == DIRS[dirs[i]]
       IN IF /\ 0 <= start_row /\ start_row < PLAY_ROWS
             /\ 0 <= start_col /\ start_col < COLS
             /\ world[start_row][start_col] = "stone"
          THEN VeinWalk(SetCell(world, start_row, start_col, ore_type), ore_type,
                        start_col + d[1], start_row + d[2], dirs, i + 1)
          ELSE VeinWalk(world, ore_type,
                        start_col + d[1], start_row + d[2], dirs, i + 1)

RECURSIVE generate_ore_veins(_, _, _)
generate_ore_veins(world, veins, n) ==
  IF n > Len(veins) THEN world
  ELSE generate_ore_veins(
         VeinWalk(world, veins[n].ore, veins[n].start_col, veins[n].start_row,
                  veins[n].dirs, 1),
         veins, n + 1)

generate_world(rnd) ==
  LET ground_levels == [col \in 0 .. COLS - 1 |-> stone_start - rnd.thickness[col]]
      terrain == FillBedrock(FillColumns(rnd.thickness))
      wooded == PlaceTrees(terrain, ground_levels, rnd.trees, 2)
  IN generate_ore_veins(wooded, rnd.veins, 1)

\* ------------------------------------------------------------ the player

\* Player.__init__; inventory key 0 (the Pickaxe slot) is written "slot0".
Player(x, y) ==
  [x |-> x, y |-> y, vel_x |-> 0, vel_y |-> 0, on_ground |-> FALSE,
   inventory |-> [k \in {"slot0"} |-> <<"Pickaxe", 1>>],
   level |-> 1, experience |-> 0,
   mining_progress |-> 0, mining_target |-> <<0, 0>>,
   money |-> 0, inventory_slots |-> DEFAULT_INVENTORY_SLOTS,
   pickaxe_upgrades |-> 0, movement_upgrades |-> 0, block_value_upgrades |-> 0,
   double_jump_unlocked |-> FALSE, triple_jump_unlocked |-> FALSE,
   jumps_remaining |-> 1]

MinOf(S) == CHOOSE m \in S : \A n \in S : m <= n

\* Game.create_player: two rows above the first dirt cell of the middle column.
create_player(world) ==
  LET dirt_rows == {y \in 0 .. PLAY_ROWS - 1 : world[y][mid_x] = "dirt"}
      spawn_y == IF dirt_rows = {} THEN 0 ELSE Max(0, MinOf(dirt_rows) - 2)
  IN Player(mid_x * TILE, spawn_y * TILE)

\* ------------------------------------------------------------ mining

\* bonus = (1 + 0.05 * (level - 1)) * pickaxe_multiplier, in 1/PROG_DEN.
MiningBonus(player) ==
  (100 + 5 * (player.level - 1))
    * Pow(6, player.pickaxe_upgrades)
    * Pow(5, MaxUpgrades - player.pickaxe_upgrades)

\* A threshold scaled by 10 instead of 20.
MiningThresholdTen(kind) == Hardness(kind) * 10 * PROG_DEN

\* hardness = BLOCK_TYPES[type]['hardness'] * 20, in 1/PROG_DEN.
MiningThreshold(kind) == Hardness(kind) * 20 * PROG_DEN

\* A levelling loop whose threshold stays 100 at every level.
RECURSIVE LevelUpFlat(_, _)
LevelUpFlat(level, experience) ==
  IF experience >= 100
  THEN LevelUpFlat(level + 1, experience - 100)
  ELSE [level |-> level, experience |-> experience]

\* while experience >= level * 100: experience -= level * 100; level += 1
RECURSIVE LevelUp(_, _)
LevelUp(level, experience) ==
  IF experience >= level * 100
  THEN LevelUp(level + 1, experience - level * 100)
  ELSE [level |-> level, experience |-> experience]

\* An inventory update that stores (block_type, 1) whether or not the kind
\* is already held.
AddToInventoryReset(inventory, block_type) ==
  [k \in DOMAIN inventory \cup {block_type} |->
     IF k = block_type THEN <<block_type, 1>> ELSE inventory[k]]

\* inventory[block_type] = (name, count + 1), or (block_type, 1) when new.
AddToInventory(inventory, block_type) ==
  IF block_type \in DOMAIN inventory
  THEN [inventory EXCEPT ![block_type] = <<@[1], @[2] + 1>>]
  ELSE [k \in DOMAIN inventory \cup {block_type} |->
          IF k = block_type THEN <<block_type, 1>> ELSE inventory[k]]

\* Early returns that let an empty cell through.
MineRejectedNoEmpty(world, grid_pos) ==
  LET col == grid_pos[1]
      row == grid_pos[2]
  IN \/ ~(0 <= row /\ row < ROWS /\ 0 <= col /\ col < COLS)
     \/ world[row][col] = "bedrock"

\* Early returns that let bedrock through.
MineRejectedNoBedrock(world, grid_pos) ==
  LET col == grid_pos[1]
      row == grid_pos[2]
  IN \/ ~(0 <= row /\ row < ROWS /\ 0 <= col /\ col < COLS)
     \/ world[row][col] = None

\* The early returns of mine_block: out of the grid, empty, or bedrock.
MineRejected(world, grid_pos) ==
  LET col == grid_pos[1]
      row == grid_pos[2]
  IN \/ ~(0 <= row /\ row < ROWS /\ 0 <= col /\ col < COLS)
     \/ world[row][col] = None
     \/ world[row][col] = "bedrock"

\* An extraction that never moves the player.
SnapToCellNever(player, col, row) == player

\* The snap at the end of an extraction: the player's centre inside the
\* broken cell puts the player on that cell's corner.
SnapToCell(player, col, row) ==
  LET cx == player.x + (TILE \div 2)
      cy == player.y + (TILE \div 2)
  IN IF /\ col * TILE <= cx /\ cx < (col + 1) * TILE
        /\ row * TILE <= cy /\ cy < (row + 1) * TILE
     THEN [player EXCEPT !.x = col * TILE, !.y = row * TILE]
     ELSE player

\* A mine_block whose extraction leaves the block in the grid.
mine_block_keep_cell(player, world, grid_pos) ==
  LET col == grid_pos[1]
      row == grid_pos[2]
  IN IF MineRejected(world, grid_pos)
     THEN [player |-> player, world |-> world]
     ELSE
       LET block_type == world[row][col]
           progress == player.mining_progress + MiningBonus(player)
       IN IF progress >= MiningThreshold(block_type)
          THEN
            LET lv == LevelUp(player.level,
                              player.experience + BlockXp(block_type))
                p1 == [player EXCEPT
                         !.experience = lv.experience,
                         !.level = lv.level,
                         !.inventory = AddToInventory(@, block_type),
                         !.mining_progress = 0]
            IN [player |-> SnapToCell(p1, col, row), world |-> world]
          ELSE [player |-> [player EXCEPT !.mining_progress = progress],
                world |-> world]

\* Player.mine_block(world, grid_pos): the player and the world afterwards.
mine_block(player, world, grid_pos) ==
  LET col == grid_pos[1]
      row == grid_pos[2]
  IN IF MineRejected(world, grid_pos)
     THEN [player |-> player, world |-> world]
     ELSE
       LET block_type == world[row][col]
           progress == player.mining_progress + MiningBonus(player)
       IN IF progress >= MiningThreshold(block_type)
          THEN
            LET lv == LevelUp(player.level,
                              player.experience + BlockXp(block_type))
                p1 == [player EXCEPT
                         !.experience = lv.experience,
                         !.level = lv.level,
                         !.inventory = AddToInventory(@, block_type),
                         !.mining_progress = 0]
            IN [player |-> SnapToCell(p1, col, row),
                world |-> SetCell(world, row, col, None)]
          ELSE [player |-> [player EXCEPT !.mining_progress = progress],
                world |-> world]

\* ------------------------------------------------------------ collision

\* Python's list indexing: an index in -n .. -1 counts from the end, any
\* other index outside 0 .. n-1 raises IndexError.
PyIndexOk(i, n) == -n <= i /\ i < n
PyIndex(i, n) == IF i < 0 THEN i + n ELSE i
PyCell(world, row, col) == world[PyIndex(row, ROWS)][PyIndex(col, COLS)]

\* v // TILE_SIZE on a position, and pygame.Rect's truncation to whole pixels.
TileOf(v) == v \div TILE
Trunc(v) == IF v >= 0 THEN v \div U ELSE -((-v) \div U)

\* Player.is_colliding at position (x, y).
is_colliding(x, y, world) ==
  LET rx == Trunc(x)
      ry == Trunc(y)
  IN \E row \in TileOf(y) .. TileOf(y + TILE), col \in TileOf(x) .. TileOf(x + TILE) :
       /\ 0 <= row /\ row < ROWS /\ 0 <= col /\ col < COLS
       /\ world[row][col] # None
       \* rect.colliderect(block_rect)
       /\ rx < col * TILE_SIZE + TILE_SIZE /\ col * TILE_SIZE < rx + TILE_SIZE
       /\ ry < row * TILE_SIZE + TILE_SIZE /\ row * TILE_SIZE < ry + TILE_SIZE

\* The nudges of resolve_collisions in their order: up, down, left, right.
NUDGES == << <<0, -1>>, <<0, 1>>, <<-1, 0>>, <<1, 0>> >>
MAX_NUDGE_ITERATIONS == 10

\* A loop that leaves the last nudge it tried applied when no nudge removes
\* the overlap.
RECURSIVE ResolveLoopPartial(_, _, _, _)
ResolveLoopPartial(x, y, world, iterations) ==
  IF is_colliding(x, y, world) /\ iterations < MAX_NUDGE_ITERATIONS
  THEN LET free == {i \in 1 .. 4 :
                      ~is_colliding(x + NUDGES[i][1] * U, y + NUDGES[i][2] * U, world)}
       IN IF free = {} THEN <<x + NUDGES[4][1] * U, y + NUDGES[4][2] * U>>
          ELSE LET i == MinOf(free)
               IN ResolveLoopPartial(x + NUDGES[i][1] * U, y + NUDGES[i][2] * U,
                                     world, iterations + 1)
  ELSE <<x, y>>

\* The while loop of resolve_collisions from position (x, y): the position
\* it ends with.
RECURSIVE ResolveLoop(_, _, _, _)
ResolveLoop(x, y, world, iterations) ==
  IF is_colliding(x, y, world) /\ iterations < MAX_NUDGE_ITERATIONS
  THEN LET free == {i \in 1 .. 4 :
                      ~is_colliding(x + NUDGES[i][1] * U, y + NUDGES[i][2] * U, world)}
       IN IF free = {} THEN <<x, y>>
          ELSE LET i == MinOf(free)
               IN ResolveLoop(x + NUDGES[i][1] * U, y + NUDGES[i][2] * U,
                              world, iterations + 1)
  ELSE <<x, y>>

resolve_collisions(player, world) ==
  LET pos == ResolveLoop(player.x, player.y, world, 0)
  IN [player EXCEPT !.x = pos[1], !.y = pos[2]]

\* ------------------------------------------------------------ Player.update

\* Horizontal movement: the velocity after the keys, friction and the clamp.
HorizontalVelocity(player, keys) ==
  LET mult == Pow(6, player.movement_upgrades)
                * Pow(5, MaxUpgrades - player.movement_upgrades)
      acceleration_dt == (BASE_ACCELERATION \div DT_DIV) * mult
      max_speed == BASE_MAX_SPEED * mult
      friction_dt == (FRICTION \div DT_DIV) * VEL_DEN
      v == IF "left" \in keys THEN player.vel_x - acceleration_dt
           ELSE IF "right" \in keys THEN player.vel_x + acceleration_dt
           ELSE IF player.vel_x > 0 THEN Max(0, player.vel_x - friction_dt)
           ELSE IF player.vel_x < 0 THEN Min(0, player.vel_x + friction_dt)
           ELSE player.vel_x
  IN Max(-max_speed, Min(max_speed, v))

\* The rows the horizontal test scans: top // TILE_SIZE .. bottom // TILE_SIZE.
ScanRows(player) == TileOf(player.y) .. TileOf(player.y + TILE)

\* Horizontal collision: [x, vel_x, fault] after the test of the column the
\* leading edge enters.
HorizontalStep(player, world, vel_x) ==
  LET new_x == player.x + vel_x
      rows == {row \in ScanRows(player) : 0 <= row /\ row < ROWS}
  IN IF vel_x < 0
     THEN LET col == TileOf(new_x)
          IN IF \E row \in rows : 0 <= col /\ col < COLS /\ world[row][col] # None
             THEN [x |-> (col + 1) * TILE, vel_x |-> 0, fault |-> FALSE]
             ELSE [x |-> new_x, vel_x |-> vel_x, fault |-> FALSE]
     ELSE IF vel_x > 0
     THEN LET col == TileOf(new_x + TILE)
          IN IF col >= COLS \/ rows = {}
             THEN [x |-> new_x, vel_x |-> vel_x, fault |-> FALSE]
             ELSE IF ~PyIndexOk(col, COLS)
             THEN [x |-> player.x, vel_x |-> vel_x, fault |-> TRUE]
             ELSE IF \E row \in rows : PyCell(world, row, col) # None
             THEN [x |-> col * TILE - TILE, vel_x |-> 0, fault |-> FALSE]
             ELSE [x |-> new_x, vel_x |-> vel_x, fault |-> FALSE]
     ELSE [x |-> new_x, vel_x |-> vel_x, fault |-> FALSE]

\* for col in range(left_col, right_col + 1):
\*     if bottom_row < ROWS and world[bottom_row][col] is not None: ... break
\* "hit", "miss", or "fault" when an index is out of Python's range.
RECURSIVE VerticalScan(_, _, _, _)
VerticalScan(world, bottom_row, col, right_col) ==
  IF col > right_col THEN "miss"
  ELSE IF bottom_row >= ROWS THEN VerticalScan(world, bottom_row, col + 1, right_col)
  ELSE IF ~PyIndexOk(bottom_row, ROWS) \/ ~PyIndexOk(col, COLS) THEN "fault"
  ELSE IF PyCell(world, bottom_row, col) # None THEN "hit"
  ELSE VerticalScan(world, bottom_row, col + 1, right_col)

\* A landing that restores two jumps at most, whatever is unlocked.
JumpChargesCapped(player) ==
  1 + (IF player.double_jump_unlocked \/ player.triple_jump_unlocked
       THEN 1 ELSE 0)

\* A landing that restores one jump more than the upgrades allow.
JumpChargesExtra(player) ==
  2 + (IF player.double_jump_unlocked THEN 1 ELSE 0)
    + (IF player.triple_jump_unlocked THEN 1 ELSE 0)

\* The jumps a landing restores.
JumpCharges(player) ==
  1 + (IF player.double_jump_unlocked THEN 1 ELSE 0)
    + (IF player.triple_jump_unlocked THEN 1 ELSE 0)

\* The vertical move Player.update tries on the player after the horizontal
\* step: the velocity after gravity, the new y, and the row and columns the
\* scan reads.
VerticalProbe(player) ==
  LET vel_y == IF player.on_ground THEN player.vel_y
               ELSE player.vel_y + (GRAVITY \div DT_DIV) * VEL_DEN
      new_y == player.y + vel_y
  IN [vel_y |-> vel_y, new_y |-> new_y,
      bottom_row |-> TileOf(new_y + TILE),
      left_col |-> TileOf(player.x),
      right_col |-> TileOf(player.x + TILE - U)]

\* Vertical movement and the jump reset, on the player after the horizontal
\* step.
VerticalStep(player, world) ==
  LET v == VerticalProbe(player)
      scan == VerticalScan(world, v.bottom_row, v.left_col, v.right_col)
  IN IF scan = "fault"
     THEN [player |-> [player EXCEPT !.vel_y = v.vel_y], fault |-> TRUE]
     ELSE IF scan = "hit"
     THEN [player |-> [player EXCEPT !.y = v.bottom_row * TILE - TILE,
                                     !.vel_y = 0, !.on_ground = TRUE,
                                     !.jumps_remaining = JumpCharges(player)],
           fault |-> FALSE]
     ELSE [player |-> [player EXCEPT !.y = v.new_y, !.vel_y = v.vel_y,
                                     !.on_ground = FALSE],
           fault |-> FALSE]

\* Player.update(world, delta_time) under the held keys: the player
\* afterwards, and whether an IndexError ended the update part-way.
update(player, world, keys) ==
  LET h == HorizontalStep(player, world, HorizontalVelocity(player, keys))
      p1 == [player EXCEPT !.x = h.x, !.vel_x = h.vel_x]
  IN IF h.fault
     THEN [player |-> [player EXCEPT !.vel_x = HorizontalVelocity(player, keys)],
           fault |-> TRUE]
     ELSE LET v == VerticalStep(p1, world)
          IN IF v.fault THEN v
             ELSE [player |-> resolve_collisions(v.player, world), fault |-> FALSE]

\* ------------------------------------------------------------ the shop

RECURSIVE SumOver(_, _)
SumOver(f, S) ==
  IF S = {} THEN 0
  ELSE LET k == CHOOSE k \in S : TRUE
       IN f[k] + SumOver(f, S \ {k})

\* A sale that pays for the goods and leaves them in the inventory.
shop_sell_goods_keep(player) ==
  LET sold == DOMAIN player.inventory \ {"slot0"}
      price == [k \in sold |->
                  Hardness(player.inventory[k][1]) * 5 * player.inventory[k][2]]
      total == (SumOver(price, sold) * Pow(6, player.block_value_upgrades))
                 \div Pow(5, player.block_value_upgrades)
  IN [player EXCEPT !.money = @ + total]

\* shop_sell_goods: every entry but the Pickaxe slot is sold for
\* hardness * 5 * count * block_value_multiplier; money += int(total).
shop_sell_goods(player) ==
  LET sold == DOMAIN player.inventory \ {"slot0"}
      price == [k \in sold |->
                  Hardness(player.inventory[k][1]) * 5 * player.inventory[k][2]]
      total == (SumOver(price, sold) * Pow(6, player.block_value_upgrades))
                 \div Pow(5, player.block_value_upgrades)
  IN [player EXCEPT
        !.inventory = [k \in {"slot0"} \cap DOMAIN player.inventory |->
                         player.inventory[k]],
        !.money = @ + total]

shop_upgrade_backpack(player) ==
  IF player.money >= 100
  THEN [player EXCEPT !.money = @ - 100, !.inventory_slots = @ + 5]
  ELSE player

shop_upgrade_pickaxe(player) ==
  IF player.money >= 200
  THEN [player EXCEPT !.money = @ - 200, !.pickaxe_upgrades = @ + 1]
  ELSE player

shop_upgrade_movement(player) ==
  IF player.money >= 150
  THEN [player EXCEPT !.money = @ - 150, !.movement_upgrades = @ + 1]
  ELSE player

shop_upgrade_double_jump(player) ==
  IF ~player.double_jump_unlocked /\ player.money >= 250
  THEN [player EXCEPT !.money = @ - 250, !.double_jump_unlocked = TRUE]
  ELSE player

shop_upgrade_triple_jump(player) ==
  IF ~player.triple_jump_unlocked /\ player.money >= 500
  THEN [player EXCEPT !.money = @ - 500, !.triple_jump_unlocked = TRUE]
  ELSE player

shop_upgrade_block_value(player) ==
  IF player.money >= 75
  THEN [player EXCEPT !.money = @ - 75, !.block_value_upgrades = @ + 1]
  ELSE player

\* shop_menu_items: the cost shown for item i (0-based), and its action.
ShopCost(i) ==
  CASE i = 0 -> 0 [] i = 1 -> 100 [] i = 2 -> 200 [] i = 3 -> 150
    [] i = 4 -> 250 [] i = 5 -> 500 [] i = 6 -> 75

ShopAction(i, player) ==
  CASE i = 0 -> shop_sell_goods(player)
    [] i = 1 -> shop_upgrade_backpack(player)
    [] i = 2 -> shop_upgrade_pickaxe(player)
    [] i = 3 -> shop_upgrade_movement(player)
    [] i = 4 -> shop_upgrade_double_jump(player)
    [] i = 5 -> shop_upgrade_triple_jump(player)
    [] i = 6 -> shop_upgrade_block_value(player)

SHOP_ITEMS == 7

\* ------------------------------------------------------------ handle_input
\* One frame's input: keys, the keys that act in this frame (a toggle key
\* counts when it is down and its 0.2 s debounce has run out; "jump" is SPACE
\* or W; "left"/"right" are read by Player.update); mouse, whether the left
\* button is down; cell, the <<col, row>> under the mouse; rnd, the random
\* draws of a regeneration.

\* A range test that compares each axis with MINING_RANGE on its own.
InMiningRangeBox(player, cell) ==
  LET dx == player.x - cell[1] * TILE
      dy == player.y - cell[2] * TILE
      range == MINING_RANGE * U
  IN /\ -range < dx /\ dx < range
     /\ -range < dy /\ dy < range

\* math.hypot(player centre - block centre) < MINING_RANGE.  The body and a
\* tile have the same size, so the centres differ as the corners do; a
\* difference of MINING_RANGE or more along one axis decides it without
\* squaring.
InMiningRange(player, cell) ==
  LET dx == player.x - cell[1] * TILE
      dy == player.y - cell[2] * TILE
      range == MINING_RANGE * U
  IN /\ -range < dx /\ dx < range
     /\ -range < dy /\ dy < range
     /\ dx * dx + dy * dy < range * range

\* The shop branch of handle_input (shop_open holds).
ShopInput(g, keys) ==
  LET sel1 == IF "up" \in keys
              THEN (g.shop_selected - 1) % SHOP_ITEMS ELSE g.shop_selected
      sel2 == IF "down" \in keys THEN (sel1 + 1) % SHOP_ITEMS ELSE sel1
      p1 == IF "enter" \in keys /\ g.player.money >= ShopCost(sel2)
            THEN ShopAction(sel2, g.player) ELSE g.player
  IN [g EXCEPT !.shop_selected = sel2, !.player = p1,
               !.shop_open = ~("q" \in keys)]

\* A jump branch that lets an airborne player jump without a charge.
JumpInputNoCharge(player, keys) ==
  IF "jump" \in keys
  THEN IF player.on_ground
       THEN [player EXCEPT !.vel_y = JUMP_POWER * VEL_DEN, !.on_ground = FALSE,
                           !.jumps_remaining = @ - 1]
       ELSE [player EXCEPT !.vel_y = JUMP_POWER * VEL_DEN,
                           !.jumps_remaining = @ - 1]
  ELSE player

\* The jump branch.
JumpInput(player, keys) ==
  IF "jump" \in keys
  THEN IF player.on_ground
       THEN [player EXCEPT !.vel_y = JUMP_POWER * VEL_DEN, !.on_ground = FALSE,
                           !.jumps_remaining = @ - 1]
       ELSE IF player.jumps_remaining > 0
       THEN [player EXCEPT !.vel_y = JUMP_POWER * VEL_DEN,
                           !.jumps_remaining = @ - 1]
       ELSE player
  ELSE player

\* A mouse branch that mines and records no target.
MouseInputNoTarget(player, world, inp) ==
  IF inp.mouse /\ InMiningRange(player, inp.cell)
  THEN mine_block(player, world, inp.cell)
  ELSE [player |-> player, world |-> world]

\* The mouse branch: a command in range goes to mine_block and becomes the
\* mining target.
MouseInput(player, world, inp) ==
  IF inp.mouse /\ InMiningRange(player, inp.cell)
  THEN LET m == mine_block(player, world, inp.cell)
       IN [player |-> [m.player EXCEPT !.mining_target = inp.cell],
           world |-> m.world]
  ELSE [player |-> player, world |-> world]

\* Game.handle_input on the game g = [world, player, shop_open, map_mode,
\* inventory_open, shop_selected].
handle_input(g, inp) ==
  LET g1 == IF "m" \in inp.keys THEN [g EXCEPT !.map_mode = ~@] ELSE g
  IN IF g1.shop_open THEN ShopInput(g1, inp.keys)
     ELSE IF "q" \in inp.keys THEN [g1 EXCEPT !.shop_open = TRUE]
     ELSE
       LET g2 == IF "e" \in inp.keys THEN [g1 EXCEPT !.inventory_open = ~@] ELSE g1
           p3 == JumpInput(g2.player, inp.keys)
           w4 == IF "r" \in inp.keys THEN generate_world(inp.rnd) ELSE g2.world
           m5 == MouseInput(p3, w4, inp)
       IN [g2 EXCEPT !.player = m5.player, !.world = m5.world]

\* Whether this frame's handle_input reaches the regeneration.
Regenerates(g, inp) ==
  /\ "r" \in inp.keys
  /\ ~g.shop_open
  /\ ~("q" \in inp.keys)

\* ------------------------------------------------------------ random draws
\* The draws of generate_world the model follows.

FullLeaves == {<<dy, dx>> : dy \in -1 .. 1, dx \in -2 .. 2}
TopLeaves == {<<-1, dx>> : dx \in -2 .. 2}

\* Ten veins (num_veins = 10), each of length 5, walking down and up between
\* the second and third stone row of the middle column.
DiamondVeins ==
  [n \in 1 .. 10 |->
     [ore |-> "diamond_ore", start_col |-> mid_x, start_row |-> stone_start + 1,
      dirs |-> <<3, 4, 3, 4, 3>>]]

\* Ten veins of length 5 running right along the first stone row.
CoalVeins ==
  [n \in 1 .. 10 |->
     [ore |-> "coal", start_col |-> 0, start_row |-> stone_start,
      dirs |-> <<1, 1, 1, 1, 1>>]]

RndPlain ==
  [thickness |-> [col \in 0 .. COLS - 1 |-> 4],
   trees |-> [col \in 0 .. COLS - 1 |-> NoTree],
   veins |-> DiamondVeins]

RndTreeLeft ==
  [thickness |-> [col \in 0 .. COLS - 1 |-> 4],
   trees |-> [col \in 0 .. COLS - 1 |->
                IF col = mid_x - 1 THEN [height |-> 4, leaves |-> FullLeaves]
                ELSE NoTree],
   veins |-> DiamondVeins]

RndTreeSpawn ==
  [thickness |-> [col \in 0 .. COLS - 1 |-> IF col < mid_x THEN 5 ELSE 4],
   trees |-> [col \in 0 .. COLS - 1 |->
                IF col = mid_x THEN [height |-> 4, leaves |-> TopLeaves]
                ELSE NoTree],
   veins |-> CoalVeins]

RndSources == {RndPlain, RndTreeLeft, RndTreeSpawn}

\* ------------------------------------------------------------ state

VARIABLES
  world,           \* Game.world: row -> column -> kind or None
  player,          \* Game.player
  shop_open, map_mode, inventory_open, shop_selected,
  status,          \* "running", or "crashed" once an exception ended run()
  regens,          \* generate_world calls made by the R key so far
  gen              \* where a generate_world followed loop by loop stands

vars == <<world, player, shop_open, map_mode, inventory_open, shop_selected,
          status, regens, gen>>

\* No draw, and the gen of a game whose world was generated in one piece.
NoDraw == [kind |-> "none"]
GenIdle ==
  [phase |-> "done", col |-> 0, veins |-> 0, thickness |-> <<>>, last |-> NoDraw]

Game ==
  [world |-> world, player |-> player, shop_open |-> shop_open,
   map_mode |-> map_mode, inventory_open |-> inventory_open,
   shop_selected |-> shop_selected]

\* Game.__init__ under the draws of Rnds.
InitWith(Rnds) ==
  /\ \E rnd \in Rnds : world = generate_world(rnd)
  /\ player = create_player(world)
  /\ shop_open = FALSE
  /\ map_mode = FALSE
  /\ inventory_open = FALSE
  /\ shop_selected = 0
  /\ status = "running"
  /\ regens = 0
  /\ gen = GenIdle

Init == InitWith({RndPlain, RndTreeSpawn})

\* An iteration that runs Player.update first and handle_input after it.
RunFrameUpdateFirst(g, inp) ==
  LET paused == g.map_mode \/ g.shop_open
      u == update(g.player, g.world, inp.keys)
      g1 == IF paused THEN g ELSE [g EXCEPT !.player = u.player]
  IN [game |-> handle_input(g1, inp),
      status |-> IF ~paused /\ u.fault THEN "crashed" ELSE "running"]

\* One iteration of the loop of Game.run under input inp: handle_input, then
\* Player.update unless the map or the shop is open.  An IndexError raised
\* by the update leaves run() through the handler at the end of the file.
RunFrame(g, inp) ==
  LET h == handle_input(g, inp)
      paused == h.map_mode \/ h.shop_open
      u == update(h.player, h.world, inp.keys)
  IN [game |-> IF paused THEN h ELSE [h EXCEPT !.player = u.player],
      status |-> IF ~paused /\ u.fault THEN "crashed" ELSE "running"]

Frame(inp) ==
  /\ status = "running"
  /\ \E r \in {RunFrame(Game, inp)} :
        /\ world' = r.game.world
        /\ player' = r.game.player
        /\ shop_open' = r.game.shop_open
        /\ map_mode' = r.game.map_mode
        /\ inventory_open' = r.game.inventory_open
        /\ shop_selected' = r.game.shop_selected
        /\ status' = r.status
        /\ regens' = IF Regenerates(Game, inp) THEN regens + 1 ELSE regens
        /\ gen' = gen

\* The inputs with key sets KS, mouse button states Ms, mouse cells Cells and
\* regeneration draws Rnds.
Inputs(KS, Ms, Cells, Rnds) ==
  {[keys |-> k, mouse |-> m, cell |-> c, rnd |-> r] :
     k \in KS, m \in Ms, c \in Cells, r \in Rnds}

\* The cell varies only while the button is down, the draws only where R is
\* among the keys, and R is pressed at most MaxRegens times.
InputOk(inp, Cells, Rnds) ==
  /\ inp.mouse \/ inp.cell = (CHOOSE c \in Cells : TRUE)
  /\ "r" \in inp.keys \/ inp.rnd = (CHOOSE r \in Rnds : TRUE)
  /\ "r" \in inp.keys => regens < MaxRegens

\* A mining session: no key is held, the mouse digs down the middle column
\* from the highest ground row, and points at bedrock, at the sky and above
\* the grid.
MineRows == (stone_start - 4 .. stone_start + 2) \cup {PLAY_ROWS, 0, -1}
MineCells == {<<mid_x, row>> : row \in MineRows}
MineInputs == Inputs({{}}, BOOLEAN, MineCells, {RndPlain})

Next == \E inp \in MineInputs : InputOk(inp, MineCells, {RndPlain}) /\ Frame(inp)

Spec == Init /\ [][Next]_vars

\* Regenerations between short digs: R, and the mouse on the highest ground
\* row of the middle column and on bedrock.
RegenRows == {stone_start - 4, PLAY_ROWS}
RegenCells == {<<mid_x, row>> : row \in RegenRows}
RegenInputs == Inputs({{}, {"r"}}, BOOLEAN, RegenCells, RndSources)

InitRegen == InitWith(RndSources)

NextRegen ==
  \E inp \in RegenInputs : InputOk(inp, RegenCells, RndSources) /\ Frame(inp)

SpecRegen == InitRegen /\ [][NextRegen]_vars

\* Moving about: the jump key and the left key, no mouse.
MoveKeys == {{}, {"jump"}, {"left"}}
MoveInputs == Inputs(MoveKeys, {FALSE}, {<<0, 0>>}, {RndPlain})

InitMove == InitWith({RndPlain, RndTreeLeft})

NextMove ==
  \E inp \in MoveInputs : InputOk(inp, {<<0, 0>>}, {RndPlain}) /\ Frame(inp)

SpecMove == InitMove /\ [][NextMove]_vars

\* Towards the right edge of the grid: the jump key and the right key, no
\* mouse.
EdgeKeys == {{}, {"jump"}, {"right"}}
EdgeInputs == Inputs(EdgeKeys, {FALSE}, {<<0, 0>>}, {RndPlain})

InitEdge == InitWith({RndPlain})

NextEdge ==
  \E inp \in EdgeInputs : InputOk(inp, {<<0, 0>>}, {RndPlain}) /\ Frame(inp)

SpecEdge == InitEdge /\ [][NextEdge]_vars

\* Under a tree's crown: the jump key, and the mouse on the leaves above the
\* spawn column, two rows over the standing player's head, and on the leaves
\* one row higher and one column to the right, which are out of range from
\* the ground and in range from the air.
CanopyKeys == {{}, {"jump"}}
CanopyCells == {<<mid_x, stone_start - 7>>, <<mid_x + 1, stone_start - 8>>}
CanopyInputs == Inputs(CanopyKeys, BOOLEAN, CanopyCells, {RndTreeLeft})

InitCanopy == InitWith({RndTreeLeft})

NextCanopy ==
  \E inp \in CanopyInputs :
    InputOk(inp, CanopyCells, {RndTreeLeft}) /\ Frame(inp)

SpecCanopy == InitCanopy /\ [][NextCanopy]_vars

\* Pauses: M toggles the map, Q opens and closes the shop, and the jump key,
\* R and the mouse on the highest ground row of the middle column are used
\* in and out of them.
PauseKeys == {{}, {"m"}, {"q"}, {"jump"}, {"r"}}
PauseCells == {<<mid_x, stone_start - 4>>}
PauseInputs == Inputs(PauseKeys, BOOLEAN, PauseCells, {RndTreeLeft})

InitPause == InitWith({RndPlain})

NextPause ==
  \E inp \in PauseInputs :
    InputOk(inp, PauseCells, {RndTreeLeft}) /\ Frame(inp)

SpecPause == InitPause /\ [][NextPause]_vars

\* Jumping in and out of the pauses: the jump key alone and together with M,
\* M, and Q; no mouse.
JumpKeys == {{}, {"jump"}, {"m"}, {"jump", "m"}, {"q"}}
JumpInputs == Inputs(JumpKeys, {FALSE}, {<<0, 0>>}, {RndPlain})

InitJump == InitWith({RndPlain})

NextJump ==
  \E inp \in JumpInputs : InputOk(inp, {<<0, 0>>}, {RndPlain}) /\ Frame(inp)

SpecJump == InitJump /\ [][NextJump]_vars

\* Digging and trading: the mouse digs down the middle column, always on
\* its highest block and no deeper than the second stone row; Q opens and
\* closes the shop, UP moves the selection and RETURN takes the selected
\* item.
ShopKeys == {{}, {"q"}, {"up"}, {"enter"}}
ShopRows == stone_start - 4 .. stone_start + 1
ShopCells == {<<mid_x, row>> : row \in ShopRows}
ShopInputs == Inputs(ShopKeys, BOOLEAN, ShopCells, {RndPlain})

\* The highest block of the middle column is at cell c.
HighestBlock(c) ==
  /\ world[c[2]][mid_x] # None
  /\ \A row \in 0 .. c[2] - 1 : world[row][mid_x] = None

InitShop == InitWith({RndPlain})

NextShop ==
  \E inp \in ShopInputs :
    /\ InputOk(inp, ShopCells, {RndPlain})
    /\ inp.mouse => HighestBlock(inp.cell)
    /\ Frame(inp)

SpecShop == InitShop /\ [][NextShop]_vars

\* Game.__init__ followed loop by loop: generate_world's column and bedrock
\* loops are done at once, then one step for each column of the tree loop,
\* one step for each vein, and create_player at the end.  gen.last holds the
\* draw of the last step.

\* Thickness draws: every column 4, and the columns left of the first tree
\* column 8, which puts their dirt next to a tree's crown.
ThicknessFlat == [col \in 0 .. COLS - 1 |-> 4]
ThicknessHill == [col \in 0 .. COLS - 1 |-> IF col < 2 THEN 8 ELSE 4]
ThicknessDraws == {ThicknessFlat, ThicknessHill}

\* Tree draws: the lowest tree with every leaf drawn, and the highest with
\* the leaves of the row above the top only.
TreeDraws ==
  {[height |-> 4, leaves |-> FullLeaves], [height |-> 7, leaves |-> TopLeaves]}

\* Vein draws.  A vein makes as many visits as its length, each followed by
\* a move (indices into DIRS: 2 left, 3 down, 4 up, 5 down-right); the
\* lengths are 0 .. MaxVeinLen and the moves the first of one of four walks:
\* out of the grid and back, straight down, straight up, up and down again.
\* Coal starts at the left end of the first stone row, diamond at the left
\* end of the last.
MaxVeinLen == 3
MaxVeins == 2
VeinPaths == {<<2, 5, 3, 3, 3>>, <<3, 3, 3, 3, 3>>, <<4, 4, 4, 4, 4>>,
              <<4, 3, 4, 3, 4>>}
VeinDirs == {SubSeq(path, 1, length) : path \in VeinPaths,
                                       length \in 0 .. MaxVeinLen}
VeinDraws ==
  {[ore |-> "coal", start_col |-> 0, start_row |-> stone_start, dirs |-> d] :
     d \in VeinDirs}
  \cup {[ore |-> "diamond_ore", start_col |-> 0, start_row |-> PLAY_ROWS - 1,
         dirs |-> d] : d \in VeinDirs}

InitGen ==
  /\ \E thickness \in ThicknessDraws :
       /\ world = FillBedrock(FillColumns(thickness))
       /\ gen = [phase |-> "trees", col |-> 2, veins |-> 0,
                 thickness |-> thickness, last |-> NoDraw]
  /\ player = None
  /\ shop_open = FALSE
  /\ map_mode = FALSE
  /\ inventory_open = FALSE
  /\ shop_selected = 0
  /\ status = "generating"
  /\ regens = 0

\* One column of the tree loop: no tree, or generate_tree on its draws.
GenTree ==
  /\ gen.phase = "trees"
  /\ gen.col < COLS - 2
  /\ LET y == stone_start - gen.thickness[gen.col]
     IN \/ /\ world' = world
           /\ gen' = [gen EXCEPT !.col = @ + 1, !.last = NoDraw]
        \/ \E t \in TreeDraws :
             /\ world' = generate_tree(gen.col, y, world, t)
             /\ gen' = [gen EXCEPT !.col = @ + 1,
                                   !.last = [kind |-> "tree", x |-> gen.col,
                                             y |-> y, t |-> t]]
  /\ UNCHANGED <<player, shop_open, map_mode, inventory_open, shop_selected,
                 status, regens>>

\* One vein of generate_ore_veins, once the tree loop is over.
GenVein ==
  /\ \/ gen.phase = "trees" /\ gen.col >= COLS - 2
     \/ gen.phase = "veins"
  /\ gen.veins < MaxVeins
  /\ \E v \in VeinDraws :
       /\ world' = VeinWalk(world, v.ore, v.start_col, v.start_row, v.dirs, 1)
       /\ gen' = [gen EXCEPT !.phase = "veins", !.veins = @ + 1,
                             !.last = [kind |-> "vein", vein |-> v]]
  /\ UNCHANGED <<player, shop_open, map_mode, inventory_open, shop_selected,
                 status, regens>>

\* The end of generate_world and create_player.
GenFinish ==
  /\ gen.phase = "veins"
  /\ gen.veins >= 1
  /\ player' = create_player(world)
  /\ status' = "running"
  /\ gen' = [gen EXCEPT !.phase = "done", !.last = NoDraw]
  /\ UNCHANGED <<world, shop_open, map_mode, inventory_open, shop_selected,
                 regens>>

NextGen == GenTree \/ GenVein \/ GenFinish

SpecGen == InitGen /\ [][NextGen]_vars

\* ------------------------------------------------------------ properties

\* The cells of the grid as (col, row) pairs, and the kind at one of them.
Cells == {<<col, row>> : col \in 0 .. COLS - 1, row \in 0 .. ROWS - 1}
At(w, c) == w[c[2]][c[1]]

\* The count an inventory holds of a kind, and the blocks it holds in all.
Count(inventory, kind) ==
  IF kind \in DOMAIN inventory THEN inventory[kind][2] ELSE 0
Blocks(inventory) ==
  SumOver([k \in DOMAIN inventory \ {"slot0"} |-> inventory[k][2]],
          DOMAIN inventory \ {"slot0"})

\* The experience ever granted to a player at this level with this much
\* experience: the levels below cost 100, 200, ..., (level - 1) * 100.
TotalXp(level, experience) == experience + 50 * level * (level - 1)

\* C1: after startup generation and after every regeneration, and whatever
\* is mined in between, every cell of the bottom BEDROCK_THICKNESS rows is
\* bedrock, in every column.
C1_BedrockRows ==
  \A row \in ROWS - BEDROCK_THICKNESS .. ROWS - 1, col \in 0 .. COLS - 1 :
    world[row][col] = "bedrock"

\* A world regenerated after a block was mined, and mined again.
C1_Witness ==
  /\ regens = MaxRegens
  /\ Count(player.inventory, "dirt") >= 2
  /\ world[stone_start - 4][mid_x] = None

\* C2 as the specification states it: a frame whose mining command goes to
\* a destructible cell other than the previous command's target credits the
\* new cell from zero, so that afterwards progress is at most one step's
\* worth.
C2_ResetOnRetarget ==
  [][(/\ player'.mining_target # player.mining_target
      /\ InGrid(player'.mining_target[2], player'.mining_target[1])
      /\ At(world, player'.mining_target) \notin {None, "bedrock"})
     => player'.mining_progress <= MiningBonus(player)]_vars

\* The cells a mining step is tried on: those of the session, and cells
\* beside, below and above the grid.
ProbeCells ==
  MineCells \cup {<<-1, stone_start>>, <<COLS, stone_start>>, <<mid_x, ROWS>>}

\* A destructible cell: in the grid, neither empty nor bedrock.
Destructible(w, c) == InGrid(c[2], c[1]) /\ At(w, c) \notin {None, "bedrock"}

\* C3: a mining step that brings progress to at least hardness * 20 on a
\* destructible cell empties that cell and no other, adds exactly one to the
\* inventory count of that kind and changes no other entry, grants the
\* kind's entry of the XP table, and leaves progress zero, all in that step.
C3_Extraction ==
  \A c \in ProbeCells :
    Destructible(world, c) =>
      LET kind == At(world, c)
          r == mine_block(player, world, c)
          inv == player.inventory
          inv2 == r.player.inventory
      IN player.mining_progress + MiningBonus(player)
             >= Hardness(kind) * 20 * PROG_DEN
         => /\ At(r.world, c) = None
            /\ \A d \in Cells \ {c} : At(r.world, d) = At(world, d)
            /\ Count(inv2, kind) = Count(inv, kind) + 1
            /\ DOMAIN inv2 = DOMAIN inv \cup {kind}
            /\ \A k \in DOMAIN inv \ {kind} : inv2[k] = inv[k]
            /\ TotalXp(r.player.level, r.player.experience)
                 = TotalXp(player.level, player.experience) + BlockXp(kind)
            /\ r.player.mining_progress = 0

\* A second block of a kind was extracted: the count is two, progress is
\* zero and the second cell of the column is empty.
C3_Witness ==
  /\ Count(player.inventory, "dirt") = 2
  /\ player.mining_progress = 0
  /\ world[stone_start - 3][mid_x] = None
  /\ player.experience = 2 * BlockXp("dirt")

\* C4: at level 1 with no tool upgrade each mining step adds 1.0, so a stone
\* cell mined from progress 0 is still there after each of the first 59
\* steps and is removed by the 60th, which adds one stone to the inventory;
\* for every kind, level and multiplier a step extracts exactly when it
\* brings progress to hardness * 20 or more.
C4_StoneSixtySteps ==
  \A c \in ProbeCells :
    Destructible(world, c) =>
      LET kind == At(world, c)
          r == mine_block(player, world, c)
          p == player.mining_progress
      IN /\ (At(r.world, c) = None)
              <=> (p + MiningBonus(player) >= Hardness(kind) * 20 * PROG_DEN)
         /\ (kind = "stone" /\ player.level = 1 /\ player.pickaxe_upgrades = 0)
              => /\ p % PROG_DEN = 0
                 /\ p < 59 * PROG_DEN
                      => /\ r.world = world
                         /\ r.player.mining_progress = p + PROG_DEN
                 /\ p = 59 * PROG_DEN
                      => /\ At(r.world, c) = None
                         /\ Count(r.player.inventory, "stone")
                              = Count(player.inventory, "stone") + 1

\* The stone cell of the column was extracted at level 1, and the inventory
\* holds stone with count 1.
C4_Witness ==
  /\ world[stone_start][mid_x] = None
  /\ player.inventory["stone"] = <<"stone", 1>>
  /\ player.level = 1
  /\ player.pickaxe_upgrades = 0
  /\ player.mining_progress = 0

\* The cells a step empties.
Emptied == {c \in Cells : At(world, c) # None /\ At(world', c) = None}

\* C5: from one frame to the next mining progress does not decrease except
\* in the frame that completes an extraction; an extraction empties exactly
\* one cell, the one mined, and adds exactly one block to the inventory; a
\* frame without one changes no cell and no count; and an emptied cell stays
\* empty, so no cell is extracted twice.
C5_MonotoneOneExtraction ==
  [][IF world' = world
     THEN /\ player'.mining_progress >= player.mining_progress
          /\ player'.inventory = player.inventory
     ELSE /\ \A c \in Cells : At(world', c) # At(world, c) => c \in Emptied
          /\ Emptied = {player'.mining_target}
          /\ Blocks(player'.inventory) = Blocks(player.inventory) + 1
          /\ player'.mining_progress = 0]_vars

\* Two cells were extracted one after the other, and progress is building
\* up on a third.
C5_Witness ==
  /\ Blocks(player.inventory) = 2
  /\ world[stone_start - 4][mid_x] = None
  /\ world[stone_start - 3][mid_x] = None
  /\ player.mining_target = <<mid_x, stone_start - 2>>
  /\ player.mining_progress > 0

\* A mouse command on cell c.
Command(c) == [keys |-> {}, mouse |-> TRUE, cell |-> c, rnd |-> RndPlain]

\* The fields C6 names are the same in players p and q.
SameMiningState(p, q) ==
  /\ q.mining_progress = p.mining_progress
  /\ q.inventory = p.inventory
  /\ q.experience = p.experience
  /\ q.level = p.level
  /\ q.x = p.x
  /\ q.y = p.y

\* C6: a mining step on a cell that is empty, bedrock or outside the grid
\* changes nothing: progress, inventory, experience, level, body position
\* and every grid cell are as before, in mine_block and in the mouse branch
\* that calls it.
C6_RejectedChangesNothing ==
  \A c \in ProbeCells :
    ~Destructible(world, c) =>
      LET r == mine_block(player, world, c)
          m == MouseInput(player, world, Command(c))
      IN /\ SameMiningState(player, r.player)
         /\ r.world = world
         /\ SameMiningState(player, m.player)
         /\ m.world = world

\* With progress under way and a block in the inventory, the last command
\* went to a cell that is not destructible.
C6_Witness ==
  /\ player.mining_progress > 0
  /\ Blocks(player.inventory) >= 1
  /\ player.mining_target \in ProbeCells
  /\ ~Destructible(world, player.mining_target)

\* C7: no step turns a bedrock cell into anything else, and a frame whose
\* command went to a bedrock cell leaves mining progress as it was; at every
\* reachable state a mining step on any bedrock cell, with any number of
\* tool upgrades, changes neither the grid nor the player.
C7_BedrockStays ==
  /\ [](\A c \in Cells, k \in 0 .. MaxUpgrades :
          At(world, c) = "bedrock" =>
            LET p == [player EXCEPT !.pickaxe_upgrades = k]
                r == mine_block(p, world, c)
            IN r.world = world /\ r.player = p)
  /\ [][/\ \A c \in Cells :
             At(world, c) = "bedrock" => At(world', c) = "bedrock"
        /\ (/\ player'.mining_target \in Cells
            /\ At(world, player'.mining_target) = "bedrock")
           => player'.mining_progress = player.mining_progress]_vars

\* At level 2 the last command went to the bedrock cell under the shaft,
\* which is still bedrock.
C7_Witness ==
  /\ player.mining_target = <<mid_x, PLAY_ROWS>>
  /\ world[PLAY_ROWS][mid_x] = "bedrock"
  /\ player.level = 2

\* Experience grants tried at every reachable state, small and large.
XpGrants == {1, 5, 50, 100, 250, 700}

\* The level invariant of a (level, experience) pair.
LevelOk(level, experience) ==
  /\ level >= 1
  /\ experience >= 0
  /\ experience < level * 100

\* C8: at every reachable state experience is at least 0 and below
\* level * 100 and level is at least 1, and the same holds after any grant
\* is resolved from that state, whose level is then no lower; no step
\* lowers the level; experience 250 at level 1 resolves to level 2 with
\* experience 150.
C8_LevelInvariant ==
  /\ [](/\ LevelOk(player.level, player.experience)
        /\ \A g \in XpGrants :
             LET lv == LevelUp(player.level, player.experience + g)
             IN /\ LevelOk(lv.level, lv.experience)
                /\ lv.level >= player.level
                /\ TotalXp(lv.level, lv.experience)
                     = TotalXp(player.level, player.experience) + g
        /\ LevelUp(1, 250) = [level |-> 2, experience |-> 150])
  /\ [][player'.level >= player.level]_vars

\* Level 2 was reached with experience left over.
C8_Witness ==
  /\ player.level = 2
  /\ player.experience > 0
  /\ Count(player.inventory, "diamond_ore") = 2

BodyOverlaps(x, y, w) ==
  \E c \in Cells :
    /\ At(w, c) # None
    /\ x < (c[1] + 1) * TILE /\ c[1] * TILE < x + TILE
    /\ y < (c[2] + 1) * TILE /\ c[2] * TILE < y + TILE

\* C10 as the specification states it: a frame's Player.update on a body
\* that overlaps no occupied cell leaves it overlapping none.
C10_NoOverlapAfterUpdate ==
  [][(/\ ~BodyOverlaps(player.x, player.y, world)
      /\ status' = "running")
     => ~BodyOverlaps(player'.x, player'.y, world')]_vars

\* The cell at (row, col) is in the grid and occupied.
Occupied(w, row, col) == InGrid(row, col) /\ w[row][col] # None

\* The player as the horizontal test of a frame with these keys finds it,
\* the velocity it tries, and the player as the vertical test finds it.
BeforeHorizontal(keys) == JumpInput(player, keys)
BeforeVertical(keys) ==
  LET p0 == BeforeHorizontal(keys)
      h == HorizontalStep(p0, world, HorizontalVelocity(p0, keys))
  IN [p0 EXCEPT !.x = h.x, !.vel_x = h.vel_x]

\* The column the leading edge enters when the player moves by vel_x.
LeadingCol(p, vel_x) ==
  IF vel_x < 0 THEN TileOf(p.x + vel_x) ELSE TileOf(p.x + vel_x + TILE)

\* C11 as the specification states it: in the horizontal and in the
\* vertical test of a frame a scanned cell outside the grid counts as empty;
\* the tests block or land exactly when a scanned cell inside the grid is
\* occupied, and neither raises a fault.
C11_OutsideCountsAsEmpty ==
  status = "running" =>
    \A keys \in EdgeKeys \cup MoveKeys :
      LET p0 == BeforeHorizontal(keys)
          vel_x == HorizontalVelocity(p0, keys)
          h == HorizontalStep(p0, world, vel_x)
          p1 == BeforeVertical(keys)
          v == VerticalProbe(p1)
      IN /\ ~h.fault
         /\ vel_x # 0 =>
              ((h.x # p0.x + vel_x)
                 <=> \E row \in ScanRows(p0) :
                       Occupied(world, row, LeadingCol(p0, vel_x)))
         /\ VerticalScan(world, v.bottom_row, v.left_col, v.right_col)
              = IF \E col \in v.left_col .. v.right_col :
                     Occupied(world, v.bottom_row, col)
                THEN "hit" ELSE "miss"

\* A frame's input with the jump key down and nothing else.
JumpCommand ==
  [keys |-> {"jump"}, mouse |-> FALSE, cell |-> <<0, 0>>, rnd |-> RndPlain]

\* The jump charges a player can hold: none, one, or one more for each of
\* the two jump upgrades.
ChargeValues == 0 .. 3

\* C12: handle_input with the jump key down gives a grounded player the
\* impulse as vertical velocity, clears on_ground and takes one jump away;
\* gives an airborne player with a jump left the impulse and takes one jump
\* away; and leaves velocity, on_ground and jumps_remaining of an airborne
\* player without a jump left as they were.  Checked on the player of every
\* reachable state, as it is and with each number of charges.
C12_JumpContract ==
  \A j \in ChargeValues \cup {player.jumps_remaining} :
    LET p == [player EXCEPT !.jumps_remaining = j]
        q == handle_input([Game EXCEPT !.player = p], JumpCommand).player
        impulse == JUMP_POWER * VEL_DEN
    IN /\ (p.on_ground /\ j > 0)
            => /\ q.vel_y = impulse
               /\ ~q.on_ground
               /\ q.jumps_remaining = j - 1
       /\ (~p.on_ground /\ j > 0)
            => /\ q.vel_y = impulse
               /\ ~q.on_ground
               /\ q.jumps_remaining = j - 1
       /\ (~p.on_ground /\ j = 0)
            => /\ q.vel_y = p.vel_y
               /\ ~q.on_ground
               /\ q.jumps_remaining = 0
       /\ q.x = p.x /\ q.y = p.y /\ q.vel_x = p.vel_x
       /\ player.on_ground => player.jumps_remaining > 0

\* The player is in the air, rising from a jump that used the last charge.
C12_Witness ==
  /\ ~player.on_ground
  /\ player.jumps_remaining = 0
  /\ player.vel_y < 0

\* C13: when the vertical scan of a frame's update finds an occupied cell
\* in the row of the body's bottom edge, the update ends with on_ground
\* true, vertical velocity 0, the bottom edge on the top boundary of that
\* row, and jumps_remaining 1 plus one for each unlocked jump upgrade.
\* Checked on the player of every reachable state with each combination of
\* the two upgrades.
C13_Landing ==
  \A keys \in MoveKeys, double \in BOOLEAN, triple \in BOOLEAN :
    LET p == [player EXCEPT !.double_jump_unlocked = double,
                            !.triple_jump_unlocked = triple]
        p0 == JumpInput(p, keys)
        h == HorizontalStep(p0, world, HorizontalVelocity(p0, keys))
        v == VerticalProbe([p0 EXCEPT !.x = h.x, !.vel_x = h.vel_x])
        u == update(p0, world, keys)
    IN (~u.fault
        /\ VerticalScan(world, v.bottom_row, v.left_col, v.right_col) = "hit")
       => /\ u.player.on_ground
          /\ u.player.vel_y = 0
          /\ u.player.y + TILE = v.bottom_row * TILE
          /\ u.player.jumps_remaining
               = 1 + (IF double THEN 1 ELSE 0) + (IF triple THEN 1 ELSE 0)

\* The body has landed after a jump: it is on the ground with no vertical
\* velocity, its bottom edge on a row boundary over an occupied cell, and
\* its one jump is back.
C13_Witness ==
  /\ player.on_ground
  /\ player.vel_y = 0
  /\ player.jumps_remaining = 1
  /\ player.y % TILE = 0
  /\ Occupied(world, TileOf(player.y) + 1, TileOf(player.x))
  /\ player.x # mid_x * TILE

\* The cell row at (row, col) is occupied and meets the vertical extent
\* [y, y + height) of a body whose top is at y.
BesideBody(w, row, col, y) ==
  /\ Occupied(w, row, col)
  /\ row * TILE < y + TILE
  /\ y < (row + 1) * TILE

\* C17 as the specification states it: the horizontal step of a frame
\* changes the tentative x or zeroes the velocity only if an occupied cell
\* of the column the leading edge enters meets the body's vertical extent;
\* so a body standing on a flat row with nothing beside it moves.
C17_BlockedOnlyBesideBody ==
  \A keys \in MoveKeys :
    LET p0 == BeforeHorizontal(keys)
        vel_x == HorizontalVelocity(p0, keys)
        h == HorizontalStep(p0, world, vel_x)
    IN (vel_x # 0 /\ (h.x # p0.x + vel_x \/ h.vel_x = 0))
       => \E row \in 0 .. ROWS - 1 :
            BesideBody(world, row, LeadingCol(p0, vel_x), p0.y)

\* The cells whose kind a step changes.
Changed == {c \in Cells : At(world', c) # At(world, c)}

\* C14: a frame without a regeneration changes at most one cell of the
\* grid, and a cell it changes was occupied, is empty afterwards and is the
\* cell whose extraction the frame completed; so no cell goes from empty to
\* occupied and none changes its kind.
C14_GridOnlyLosesBlocks ==
  [][(regens' = regens /\ world' # world)
     => /\ Cardinality(Changed) = 1
        /\ \A c \in Changed :
             /\ At(world, c) # None
             /\ At(world', c) = None
             /\ c = player'.mining_target
             /\ Count(player'.inventory, At(world, c))
                  = Count(player.inventory, At(world, c)) + 1]_vars

\* After a regeneration the top block of the middle column was extracted
\* and its neighbours are still there.
C14_Witness ==
  /\ regens >= 1
  /\ player.mining_target = <<mid_x, stone_start - 4>>
  /\ player.mining_progress = 0
  /\ world[stone_start - 4][mid_x] = None
  /\ world[stone_start - 3][mid_x] = "dirt"
  /\ world[stone_start - 4][mid_x - 1] = "dirt"

\* C15 as the specification states it: a frame that regenerates the world
\* clears the mining state, so that after it progress holds at most the one
\* step the frame's own mining command earned on the new grid.
C15_RegenClearsMining ==
  [][regens' > regens
     => player'.mining_progress <= MiningBonus(player)]_vars

\* The ore kinds the vein draws place, and a step that placed one vein.
VeinOres == {v.ore : v \in VeinDraws}
VeinStep == gen'.veins = gen.veins + 1

\* C16: a vein changes only cells that hold stone, each into the vein's ore,
\* so that no empty, dirt, wood, leaves, bedrock or ore cell is changed by a
\* vein; and at every moment of generation, and after it, every ore cell
\* lies in a row of the stone region, stone_start .. PLAY_ROWS - 1.
C16_VeinsReplaceOnlyStone ==
  /\ [](\A c \in Cells :
          At(world, c) \in VeinOres => stone_start <= c[2] /\ c[2] < PLAY_ROWS)
  /\ [][VeinStep
        => \A c \in Changed : /\ At(world, c) = "stone"
                              /\ At(world', c) = gen'.last.vein.ore]_vars

\* A diamond vein walked up from the last stone row through the cells a coal
\* vein had converted and into none of them: they still hold coal, and the
\* dirt above the coal vein's start is still dirt.
C16_Witness ==
  /\ gen.veins = 2
  /\ gen.last.kind = "vein"
  /\ gen.last.vein.ore = "diamond_ore"
  /\ gen.last.vein.dirs = <<4, 4, 4>>
  /\ world[PLAY_ROWS - 1][0] = "diamond_ore"
  /\ world[PLAY_ROWS - 2][0] = "coal"
  /\ world[PLAY_ROWS - 3][0] = "coal"
  /\ world[stone_start - 1][0] = "dirt"

\* The vein of the step just made, and the position of its k-th visit: the
\* start moved by the first k - 1 of its moves.
LastVein == gen'.last.vein
RECURSIVE VeinPos(_, _)
VeinPos(v, k) ==
  IF k = 1 THEN <<v.start_col, v.start_row>>
  ELSE LET p == VeinPos(v, k - 1)
           d == DIRS[v.dirs[k - 1]]
       IN <<p[1] + d[1], p[2] + d[2]>>
Visited(v) == {VeinPos(v, k) : k \in 1 .. Len(v.dirs)}

InPlay(c) == 0 <= c[2] /\ c[2] < PLAY_ROWS /\ 0 <= c[1] /\ c[1] < COLS

\* C19 as the specification states it: a vein ends at its first position
\* outside the grid, so every cell it changes is one it visited with no
\* position outside the grid before.
C19_StopsOutsideGrid ==
  [][VeinStep
     => \A c \in Changed :
          \E k \in 1 .. Len(LastVein.dirs) :
            /\ VeinPos(LastVein, k) = c
            /\ \A j \in 1 .. k :
                 InGrid(VeinPos(LastVein, j)[2], VeinPos(LastVein, j)[1])]_vars

\* C19 as the code has it: a vein makes every one of its visits, whatever
\* positions came before.  A visit outside the play rows and columns writes
\* nothing and the walk goes on; a visit inside them converts the cell when
\* it holds stone, also after positions outside.
C19_WalkGoesOnOutside ==
  [][VeinStep
     => \A k \in 1 .. Len(LastVein.dirs) :
          LET c == VeinPos(LastVein, k)
          IN IF InPlay(c)
             THEN (At(world, c) = "stone") => At(world', c) = LastVein.ore
             ELSE c \notin Changed]_vars

\* A coal vein started at the left edge, moved left out of the grid, came
\* back one row lower and converted the cell there.
C19_Witness ==
  /\ gen.veins = 1
  /\ gen.last.kind = "vein"
  /\ gen.last.vein.ore = "coal"
  /\ gen.last.vein.dirs = <<2, 5, 3>>
  /\ VeinPos(gen.last.vein, 2) = <<-1, stone_start>>
  /\ VeinPos(gen.last.vein, 3) = <<0, stone_start + 1>>
  /\ world[stone_start][0] = "coal"
  /\ world[stone_start + 1][0] = "coal"

\* A step that placed a tree, and the tree's top row.
TreeStep == gen'.col = gen.col + 1 /\ gen'.last.kind = "tree"
LastTop == Max(0, gen'.last.y - gen'.last.t.height)

\* C20: a tree changes only cells that were empty.  Every cell occupied
\* before it holds the same kind after it; a changed cell lies in the play
\* rows and became wood in the tree's column between its top and the ground
\* level, or leaves within one row and two columns of the top; the grid
\* keeps its rows and columns.
C20_TreeWritesOnlyEmpty ==
  [][TreeStep
     => /\ DOMAIN world' = 0 .. ROWS - 1
        /\ \A row \in 0 .. ROWS - 1 : DOMAIN world'[row] = 0 .. COLS - 1
        /\ \A c \in Cells : At(world, c) # None => At(world', c) = At(world, c)
        /\ \A c \in Changed :
             /\ At(world, c) = None
             /\ c[2] < PLAY_ROWS
             /\ \/ /\ At(world', c) = "wood"
                   /\ c[1] = gen'.last.x
                   /\ LastTop <= c[2] /\ c[2] < gen'.last.y
                \/ /\ At(world', c) = "leaves"
                   /\ gen'.last.x - 2 <= c[1] /\ c[1] <= gen'.last.x + 2
                   /\ LastTop - 1 <= c[2] /\ c[2] <= LastTop + 1]_vars

\* A tree with every leaf drawn was placed in column 3 next to an earlier
\* tree and next to higher ground: its trunk took the empty cells below
\* the earlier tree's leaves and left those leaves, and the dirt two
\* columns to the left, inside its crown, is still dirt.
C20_Witness ==
  /\ gen.last.kind = "tree"
  /\ gen.last.x = 3
  /\ gen.last.y = stone_start - 4
  /\ gen.last.t = [height |-> 4, leaves |-> FullLeaves]
  /\ world[stone_start - 8][3] = "leaves"
  /\ world[stone_start - 6][3] = "wood"
  /\ world[stone_start - 8][1] = "dirt"
  /\ world[stone_start - 8][5] = "leaves"

\* The ore_types list of generate_ore_veins.
OreKinds ==
  {"coal", "amethyst", "ruby", "magnesium", "zinc", "copper", "tungsten",
   "gold_ore", "diamond_ore", "iron_ore"}

\* Column col of grid w has ground level gl: nothing but air, wood and
\* leaves above it, dirt from it down to the stone, stone or ore in the
\* stone rows and bedrock below them.
ColumnFilled(w, col, gl) ==
  /\ \A row \in 0 .. gl - 1 : w[row][col] \in {None, "wood", "leaves"}
  /\ \A row \in gl .. stone_start - 1 : w[row][col] = "dirt"
  /\ \A row \in stone_start .. PLAY_ROWS - 1 :
       w[row][col] \in {"stone"} \cup OreKinds
  /\ \A row \in PLAY_ROWS .. ROWS - 1 : w[row][col] = "bedrock"

\* C21: at every step of a generation after the column loops, and in the
\* grid it ends with, every column has a ground level between stone_start - 8
\* and stone_start - 4 with dirt from it down to the stone, stone or ore in
\* the stone rows and bedrock in the bedrock rows, so no cell at or below
\* the surface row is empty.
C21_ColumnsFilled ==
  \A col \in 0 .. COLS - 1 :
    /\ \E gl \in stone_start - 8 .. stone_start - 4 : ColumnFilled(world, col, gl)
    /\ \A row \in 0 .. ROWS - 1 :
         world[row][col] = None
           => \A above \in 0 .. row : world[above][col] \in {None, "wood", "leaves"}

\* A finished generation with both extremes of the ground level, a tree and
\* both ores in the first column.
C21_Witness ==
  /\ gen.phase = "done"
  /\ status = "running"
  /\ ColumnFilled(world, 0, stone_start - 8)
  /\ ColumnFilled(world, 2, stone_start - 4)
  /\ world[stone_start - 5][2] = "wood"
  /\ world[stone_start][0] = "coal"
  /\ world[PLAY_ROWS - 1][0] = "diamond_ore"

\* The centre of player p lies in cell c.
CentreIn(p, c) ==
  /\ c[1] * TILE <= p.x + (TILE \div 2) /\ p.x + (TILE \div 2) < (c[1] + 1) * TILE
  /\ c[2] * TILE <= p.y + (TILE \div 2) /\ p.y + (TILE \div 2) < (c[2] + 1) * TILE

\* C22: an extraction with the body's centre inside the cleared cell puts
\* the body on that cell's top-left corner, an extraction with the centre
\* outside it leaves the position as it was, and a mining step that
\* extracts nothing leaves the position as it was; in mine_block and in the
\* mouse branch that calls it, for a command on any cell at any reachable
\* state.
C22_SnapOnExtraction ==
  \A c \in Cells :
    LET r == mine_block(player, world, c)
        m == MouseInput(player, world, Command(c))
        q == r.player
    IN /\ IF r.world # world /\ CentreIn(player, c)
          THEN q.x = c[1] * TILE /\ q.y = c[2] * TILE
          ELSE q.x = player.x /\ q.y = player.y
       /\ InMiningRange(player, c) => m.player.x = q.x /\ m.player.y = q.y
       /\ ~InMiningRange(player, c)
            => m.player.x = player.x /\ m.player.y = player.y

\* The body has jumped into the leaves it was mining: its centre is inside
\* the leaves cell, its top is not on the cell's top, and the next step on
\* the cell extracts it and puts the body on the cell's corner.
C22_Witness ==
  LET c == player.mining_target
      r == mine_block(player, world, c)
  IN /\ c \in CanopyCells
     /\ At(world, c) = "leaves"
     /\ CentreIn(player, c)
     /\ player.y # c[2] * TILE
     /\ At(r.world, c) = None
     /\ r.player.x = c[1] * TILE
     /\ r.player.y = c[2] * TILE

\* C23 as the specification states it: the frame that completes an
\* extraction leaves no cell recorded as the target, so the target is not
\* the cell just emptied, and progress is zero.
C23_TargetClearedOnExtraction ==
  [][regens' = regens
     => \A c \in Emptied : /\ player'.mining_target # c
                           /\ player'.mining_progress = 0]_vars

\* C23 as the code has it: the target is never cleared.  It is a cell
\* position at every moment, (0, 0) before the first command and after it
\* the cell of the last command in range, whether mine_block accepted the
\* command or not; the frame that completes an extraction ends with
\* progress zero and with the emptied cell as the target.
C23_TargetKeepsLastCommand ==
  /\ [](/\ player.mining_target \in RegenCells \cup {<<0, 0>>}
        /\ \A c \in RegenCells :
             LET m == MouseInput(player, world, Command(c))
             IN m.player.mining_target
                  = IF InMiningRange(player, c) THEN c ELSE player.mining_target)
  /\ [][regens' = regens
        => \A c \in Emptied : /\ player'.mining_target = c
                              /\ player'.mining_progress = 0]_vars

\* The first block was extracted with no regeneration before it: its cell
\* is empty and still the target, and progress is zero.
C23_Witness ==
  /\ regens = 0
  /\ world[stone_start - 4][mid_x] = None
  /\ player.mining_target = <<mid_x, stone_start - 4>>
  /\ player.mining_progress = 0
  /\ Count(player.inventory, "dirt") = 1

\* The player as resolve_collisions finds it in a frame with these keys,
\* and whether the update reaches resolve_collisions.
BeforeResolve(keys) == VerticalStep(BeforeVertical(keys), world).player
ReachesResolve(keys) ==
  /\ ~HorizontalStep(BeforeHorizontal(keys), world,
                     HorizontalVelocity(BeforeHorizontal(keys), keys)).fault
  /\ ~VerticalStep(BeforeVertical(keys), world).fault

\* The nudges by one pixel that take player p out of every overlap.
FreeNudges(p) ==
  {i \in 1 .. 4 :
     ~is_colliding(p.x + NUDGES[i][1] * U, p.y + NUDGES[i][2] * U, world)}

WithinRange(p, c) ==
  LET dx == (p.x + (TILE \div 2)) - (c[1] * TILE + (TILE \div 2))
      dy == (p.y + (TILE \div 2)) - (c[2] * TILE + (TILE \div 2))
      range == MINING_RANGE * U
  IN /\ -range <= dx /\ dx <= range
     /\ -range <= dy /\ dy <= range
     /\ dx * dx + dy * dy <= range * range

\* C25: a frame that empties a cell or changes mining progress had its
\* command on a cell whose centre was within MINING_RANGE of the body's
\* centre when handle_input forwarded it; and at every reachable state a
\* command on a cell further away changes neither the player nor the grid.
C25_MiningOnlyInRange ==
  /\ [](\A c \in Cells :
          ~WithinRange(player, c)
            => LET m == MouseInput(player, world, Command(c))
               IN m.player = player /\ m.world = world)
  /\ [][(Emptied # {} \/ player'.mining_progress # player.mining_progress)
        => /\ player'.mining_target \in CanopyCells
           /\ WithinRange(player, player'.mining_target)]_vars

\* In the air the body came within range of the higher leaves, which are
\* out of range from the ground, and extracted them.
C25_Witness ==
  /\ world[stone_start - 8][mid_x + 1] = None
  /\ player.mining_target = <<mid_x + 1, stone_start - 8>>
  /\ Count(player.inventory, "leaves") >= 1
  /\ ~WithinRange([player EXCEPT !.y = (stone_start - 5) * TILE],
                  <<mid_x + 1, stone_start - 8>>)

\* C27 as the specification states it: the player create_player makes at
\* the end of a generation stands where its box overlaps no occupied cell.
C27_SpawnOverlapsNothing ==
  (gen.phase = "done" /\ gen.veins >= 1)
    => ~BodyOverlaps(player.x, player.y, world)

\* C28 as the specification states it: a frame that starts and ends with
\* the shop open or the map on changes neither the grid nor the body's
\* position, velocity, on_ground and jumps_remaining nor the mining progress
\* and target.
C28_PausedFramesChangeNothing ==
  [][((shop_open \/ map_mode) /\ (shop_open' \/ map_mode'))
     => /\ world' = world
        /\ player'.x = player.x /\ player'.y = player.y
        /\ player'.vel_x = player.vel_x /\ player'.vel_y = player.vel_y
        /\ player'.on_ground = player.on_ground
        /\ player'.jumps_remaining = player.jumps_remaining
        /\ player'.mining_progress = player.mining_progress
        /\ player'.mining_target = player.mining_target]_vars

\* The jumps player p may hold: from 0 to 1 plus its unlocked jump
\* upgrades, and at least 1 while it is on the ground.
ChargesOk(p) ==
  /\ 0 <= p.jumps_remaining
  /\ p.jumps_remaining <= 1 + (IF p.double_jump_unlocked THEN 1 ELSE 0)
                             + (IF p.triple_jump_unlocked THEN 1 ELSE 0)
  /\ p.on_ground => p.jumps_remaining >= 1

\* The frames tried on every reachable state: with the shop closed the
\* keys of JumpKeys, with the shop open RETURN on the double-jump and on the
\* triple-jump item.
ChargeFrames ==
  {[shop_open |-> FALSE, shop_selected |-> 0, keys |-> k] : k \in JumpKeys}
  \cup {[shop_open |-> TRUE, shop_selected |-> i, keys |-> {"enter"}] :
          i \in {4, 5}}

\* The player after frame f on the game of this state with player p.
AfterFrame(p, f) ==
  RunFrame([Game EXCEPT !.player = p, !.shop_open = f.shop_open,
                        !.shop_selected = f.shop_selected],
           [keys |-> f.keys, mouse |-> FALSE, cell |-> <<0, 0>>,
            rnd |-> RndPlain]).game.player

\* C26: in every reachable state jumps_remaining lies between 0 and 1 plus
\* the number of unlocked jump upgrades; and from the body of every
\* reachable state, with any combination of the two upgrades, any allowed
\* number of jumps and the money for an upgrade, every frame (a jump, a
\* pause toggle, a jump during a pause, a purchase of a jump upgrade) ends
\* within these limits again.
C26_JumpsWithinLimit ==
  /\ ChargesOk(player)
  /\ \A double \in BOOLEAN, triple \in BOOLEAN, j \in ChargeValues :
       LET p == [player EXCEPT !.double_jump_unlocked = double,
                               !.triple_jump_unlocked = triple,
                               !.jumps_remaining = j,
                               !.money = 500]
       IN ChargesOk(p) => \A f \in ChargeFrames : ChargesOk(AfterFrame(p, f))

\* The jump key was held while the map was open: the impulse is applied,
\* the last jump is used, and no further jump is possible.
C26_Witness ==
  /\ map_mode
  /\ ~player.on_ground
  /\ player.jumps_remaining = 0
  /\ player.vel_y = JUMP_POWER * VEL_DEN
  /\ AfterFrame(player, [shop_open |-> FALSE, shop_selected |-> 0,
                         keys |-> {"jump"}]).jumps_remaining = 0

\* Amounts of money around each cost of the shop.
MoneyProbes == {0, 74, 75, 150, 249, 250, 499, 500}

\* The player after RETURN on item i of the open shop, for player p on the
\* game of this state.
AfterReturn(p, i) ==
  handle_input([Game EXCEPT !.player = p, !.shop_open = TRUE,
                            !.shop_selected = i],
               [keys |-> {"enter"}, mouse |-> FALSE, cell |-> <<0, 0>>,
                rnd |-> RndPlain]).player

\* C29: money is never negative.  A frame that lowers it is a frame of the
\* open shop that takes exactly the cost of one item the money covered; a
\* frame that raises it is a sale, which empties the inventory down to the
\* Pickaxe entry.  At every reachable state and for every amount of money,
\* RETURN on a priced item takes the cost when the money covers it and the
\* item is not a jump upgrade already unlocked, and takes nothing
\* otherwise, so a second RETURN on a jump upgrade takes nothing; RETURN on
\* the sale never lowers the money and leaves only the Pickaxe entry.
C29_MoneyNeverNegative ==
  /\ [](/\ player.money >= 0
        /\ LET q == AfterReturn(player, 0)
           IN /\ q.money >= player.money
              /\ q.inventory = [k \in {"slot0"} |-> <<"Pickaxe", 1>>]
        /\ \A m \in MoneyProbes \cup {player.money}, i \in 1 .. SHOP_ITEMS - 1,
              double \in BOOLEAN, triple \in BOOLEAN :
             LET p == [player EXCEPT !.money = m,
                                     !.double_jump_unlocked = double,
                                     !.triple_jump_unlocked = triple]
                 q == AfterReturn(p, i)
                 buys == /\ m >= ShopCost(i)
                         /\ i = 4 => ~double
                         /\ i = 5 => ~triple
             IN /\ q.money = IF buys THEN m - ShopCost(i) ELSE m
                /\ q.money >= 0
                /\ ShopAction(i, p) = q
                /\ i \in {4, 5} => AfterReturn(q, i) = q)
  /\ [][/\ player'.money < player.money
           => /\ shop_open
              /\ shop_selected' \in 1 .. SHOP_ITEMS - 1
              /\ player.money >= ShopCost(shop_selected')
              /\ player'.money = player.money - ShopCost(shop_selected')
        /\ player'.money > player.money
           => /\ shop_open
              /\ shop_selected' = 0
              /\ DOMAIN player'.inventory = {"slot0"}]_vars

\* Four dirt, one stone and one diamond ore were sold for 80 and the
\* block-value upgrade was bought for 75: the money is 5 and the inventory
\* holds the Pickaxe only.
C29_Witness ==
  /\ shop_open
  /\ player.block_value_upgrades = 1
  /\ player.money = 5
  /\ DOMAIN player.inventory = {"slot0"}
  /\ world[stone_start + 1][mid_x] = None

====
